---- MODULE Spec2Model ----
(***************************************************************************)
(* A model of src/index.ts: one run of backupAndUpload(config).            *)
(*                                                                         *)
(* The run is a promise chain                                              *)
(*   createBackup(...).then(uploadFile).then(cleanFs)                      *)
(* whose asynchronous events (the exec callback, the file stream's error   *)
(* event, the createBucket callback, the upload callback) are the actions. *)
(* JS values are modelled by strings: Undefined and "" are the falsy       *)
(* strings, a port is a number and 0 stands for every falsy port.          *)
(***************************************************************************)
EXTENDS Integers, Sequences, FiniteSets, TLC

VARIABLES
  config,        \* the argument of backupAndUpload
  folderExists,  \* whether PROJECT_ROOT/backups exists
  dir,           \* the staging directory, in readdirSync's listing order
  deleted,       \* names of the entries unlinkSync has removed
  effects,       \* the side effects performed so far
  connection,    \* mongoConnectionInstance, NoValue before it is computed
  fileName,      \* the generated file name, NoValue before it is computed
  command,       \* the command handed to exec, NoValue before
  dump,          \* createBackup's promise
  fileStream,    \* the read stream uploadFile opens
  bucket,        \* the createBucket call
  bucketParams,  \* its parameters
  put,           \* the s3Instance.upload call
  uploadParams,  \* its parameters
  uploadPromise, \* uploadFile's promise
  outcome,       \* how backupAndUpload's result reached the caller
  error          \* the value it rejected with or threw

vars == <<config, folderExists, dir, deleted, effects, connection, fileName,
          command, dump, fileStream, bucket, bucketParams, put, uploadParams,
          uploadPromise, outcome, error>>

-----------------------------------------------------------------------------
(* Bounds *)

\* The most entries the staging directory holds before the run.
MaxOld == 2

\* The largest noOfLocalBackups tried.
MaxBackups == 2

-----------------------------------------------------------------------------
(* JS values *)

Undefined == "<undefined>"
Null == "<null>"
NoValue == [none |-> TRUE]
NoFlag == "<no flag>"

\* A string in a condition: undefined, null and "" are falsy.
Truthy(v) == v \notin {Undefined, Null, ""}

\* v || null
OrNull(v) == IF Truthy(v) THEN v ELSE Null

\* `${v}` of a string-valued v
Interp(v) == IF v = Undefined THEN "undefined" ELSE IF v = Null THEN "null" ELSE v

\* A number in a condition: 0 and an unset field are falsy.  Unset stands
\* for the undefined of an optional number.
Unset == -1

TruthyNum(n) == n \notin {0, Unset}

\* `${port}` after port || null
InterpPort(p) == IF TruthyNum(p) THEN ToString(p) ELSE "null"

\* The clock reading, later than every file already there.
Now == MaxOld + 1

-----------------------------------------------------------------------------
(* The configurations tried *)

AbsentMongo ==
  [kind |-> "absent", wellFormed |-> FALSE, database |-> Undefined,
   host |-> Undefined, port |-> 0, username |-> Undefined,
   password |-> Undefined, ssl |-> Undefined,
   authenticationDatabase |-> Undefined]

\* "mongodb://localhost:27017/sales"
DefaultMongo ==
  [kind |-> "string", wellFormed |-> TRUE, database |-> "sales",
   host |-> "localhost", port |-> 27017, username |-> Undefined,
   password |-> Undefined, ssl |-> Undefined,
   authenticationDatabase |-> Undefined]

AbsentS3 ==
  [present |-> FALSE, accessKey |-> Undefined, secretKey |-> Undefined,
   region |-> Undefined, bucketName |-> Undefined, accessPerm |-> Undefined]

DefaultS3 ==
  [present |-> TRUE, accessKey |-> "AK", secretKey |-> "SK",
   region |-> "us-east-1", bucketName |-> "backups", accessPerm |-> Undefined]

\* Every way the fields isValidConfig reads can be missing.
MongoValidity ==
  {AbsentMongo}
  \cup [kind : {"string"}, wellFormed : BOOLEAN,
        database : {Undefined, "sales"}, host : {"localhost"},
        port : {27017}, username : {Undefined}, password : {Undefined},
        ssl : {Undefined}, authenticationDatabase : {Undefined}]
  \cup [kind : {"object"}, wellFormed : {TRUE},
        database : {"", "sales"}, host : {"", "localhost"},
        port : {0, 27017}, username : {Undefined}, password : {Undefined},
        ssl : {Undefined}, authenticationDatabase : {Undefined}]

S3Validity ==
  {AbsentS3}
  \cup [present : {TRUE}, accessKey : {"", "AK"}, secretKey : {"", "SK"},
        region : {"", "us-east-1"}, bucketName : {"", "backups"},
        accessPerm : {Undefined}]

\* Every way the fields createBackup reads can be set, in both shapes.  In
\* the string shape ssl and authenticationDatabase are the URI's query
\* options.
MongoCommand ==
  [kind : {"string"}, wellFormed : {TRUE}, database : {"sales"},
   host : {"localhost"}, port : {0, 27017}, username : {Undefined, "user"},
   password : {Undefined, "pw"}, ssl : {Undefined, "true"},
   authenticationDatabase : {Undefined, "admin"}]
  \cup [kind : {"object"}, wellFormed : {TRUE}, database : {"sales"},
        host : {"localhost"}, port : {27017}, username : {Undefined, "user"},
        password : {Undefined, "pw"}, ssl : {Undefined, "false", "true"},
        authenticationDatabase : {Undefined, "admin"}]

S3Acl ==
  [present : {TRUE}, accessKey : {"AK"}, secretKey : {"SK"},
   region : {"us-east-1"}, bucketName : {"backups"},
   accessPerm : {Undefined, "", "public-read"}]

AbsentConfig ==
  [present |-> FALSE, mongodb |-> AbsentMongo, s3 |-> AbsentS3,
   keepLocalBackups |-> FALSE, noOfLocalBackups |-> Unset]

\* Each group of fields takes all its combinations while the other groups
\* hold a valid value.
Configs ==
  {AbsentConfig}
  \cup [present : {TRUE}, mongodb : MongoValidity, s3 : S3Validity,
        keepLocalBackups : BOOLEAN, noOfLocalBackups : {Unset}]
  \cup [present : {TRUE}, mongodb : MongoCommand, s3 : {DefaultS3},
        keepLocalBackups : {FALSE}, noOfLocalBackups : {Unset}]
  \cup [present : {TRUE}, mongodb : {DefaultMongo}, s3 : S3Acl,
        keepLocalBackups : BOOLEAN,
        noOfLocalBackups : {Unset} \cup 0..MaxBackups]

\* A directory entry: a name, its kind and its modification time.  The old
\* entries are named by their age rank; the listing order is any order.
ArtifactName == 0

Entries(k) == [name : 1..k, isFile : BOOLEAN, mtime : 1..k]

InitialDirs ==
  UNION {{s \in [1..k -> Entries(k)] :
            /\ \A i \in 1..k : s[i].mtime = s[i].name
            /\ \A i, j \in 1..k : i # j => s[i].name # s[j].name}
         : k \in 0..MaxOld}

-----------------------------------------------------------------------------
(* Pure functions of src/index.ts *)

getBackUpPath(c) == IF c.keepLocalBackups THEN "backups" ELSE "tmp"

getFileName(database) == [database |-> Interp(database), time |-> Now]

isValidConfig(c) ==
  IF /\ c.present
     /\ c.mongodb.kind # "absent"
     /\ c.s3.present
     /\ Truthy(c.s3.accessKey)
     /\ Truthy(c.s3.secretKey)
     /\ Truthy(c.s3.region)
     /\ Truthy(c.s3.bucketName)
  THEN IF c.mongodb.kind # "string"
       THEN /\ Truthy(c.mongodb.database)
            /\ Truthy(c.mongodb.host)
            /\ TruthyNum(c.mongodb.port)
       ELSE TRUE
  ELSE FALSE

\* MongodbURI.parse of a well-formed string: the URI's parts, the query
\* options under `options`, and no top-level ssl or authenticationDatabase.
MongodbURI_parse(m) ==
  [scheme |-> "mongodb", username |-> m.username, password |-> m.password,
   database |-> m.database, ssl |-> Undefined,
   authenticationDatabase |-> Undefined,
   hosts |-> <<[host |-> m.host, port |-> m.port]>>]

\* MongodbURI.parse throws on a string that is no connection URI.
ParseThrows(c) == c.mongodb.kind = "string" /\ ~c.mongodb.wellFormed

getMongodbConnectionInstance(c) ==
  IF c.mongodb.kind = "string"
  THEN MongodbURI_parse(c.mongodb)
  ELSE [scheme |-> "mongodb",
        username |-> OrNull(c.mongodb.username),
        password |-> OrNull(c.mongodb.password),
        database |-> c.mongodb.database,
        ssl |-> c.mongodb.ssl,
        authenticationDatabase |-> c.mongodb.authenticationDatabase,
        hosts |-> <<[host |-> c.mongodb.host, port |-> c.mongodb.port]>>]

\* createBackup without its username-only case.
createBackupCommandNoUserOnly(mongodb, fullFilePath) ==
  LET password == OrNull(mongodb.password)
      username == OrNull(mongodb.username)
      both == Truthy(username) /\ Truthy(password)
  IN [h |-> Interp(OrNull(mongodb.hosts[1].host)),
      port |-> InterpPort(mongodb.hosts[1].port),
      d |-> Interp(mongodb.database),
      p |-> IF both THEN password ELSE NoFlag,
      u |-> IF both THEN username ELSE NoFlag,
      quiet |-> TRUE,
      gzip |-> TRUE,
      archive |-> fullFilePath,
      ssl |-> mongodb.ssl = "true",
      authenticationDatabase |->
        IF Truthy(mongodb.authenticationDatabase)
        THEN mongodb.authenticationDatabase ELSE NoFlag]

\* The command line createBackup builds: each flag with its value, NoFlag
\* for a flag the line does not hold.
createBackupCommand(mongodb, fullFilePath) ==
  LET password == OrNull(mongodb.password)
      username == OrNull(mongodb.username)
      host == OrNull(mongodb.hosts[1].host)
      ssl == IF mongodb.ssl = "true" THEN "true" ELSE Null
      authenticationDatabase == OrNull(mongodb.authenticationDatabase)
  IN [h |-> Interp(host),
      port |-> InterpPort(mongodb.hosts[1].port),
      d |-> Interp(mongodb.database),
      p |-> IF Truthy(username) /\ Truthy(password) THEN password ELSE NoFlag,
      u |-> IF Truthy(username) THEN username ELSE NoFlag,
      quiet |-> TRUE,
      gzip |-> TRUE,
      archive |-> fullFilePath,
      ssl |-> ssl = "true",
      authenticationDatabase |->
        IF Truthy(authenticationDatabase) THEN authenticationDatabase
        ELSE NoFlag]

\* promise.resolve / promise.reject: a settled promise stays as it is.
Settle(p, v) == IF p = "pending" THEN v ELSE p

\* array.reverse()
Reverse(s) == [i \in 1..Len(s) |-> s[Len(s) + 1 - i]]

\* array.slice(n), n >= 0
Slice(s, n) == SubSeq(s, n + 1, Len(s))

IsFile(e) == e.isFile

\* oldBackupNames slicing one place too far.
oldBackupNamesOffByOne(c, listing) ==
  Slice(Reverse(SelectSeq(listing, IsFile)), c.noOfLocalBackups + 1)

\* cleanFs's oldBackupNames: the plain files of the listing, reversed, past
\* the first noOfLocalBackups.
oldBackupNames(c, listing) ==
  Slice(Reverse(SelectSeq(listing, IsFile)), c.noOfLocalBackups)

\* cleanFs with the test of keepLocalBackups inverted.
cleanFsUnlinksInverted(c, listing) ==
  IF c.keepLocalBackups
  THEN {ArtifactName}
  ELSE IF TruthyNum(c.noOfLocalBackups)
       THEN {oldBackupNames(c, listing)[i].name :
               i \in 1..Len(oldBackupNames(c, listing))}
       ELSE {}

\* The names cleanFs unlinks.
cleanFsUnlinks(c, listing) ==
  IF ~c.keepLocalBackups
  THEN {ArtifactName}
  ELSE IF TruthyNum(c.noOfLocalBackups)
       THEN {oldBackupNames(c, listing)[i].name :
               i \in 1..Len(oldBackupNames(c, listing))}
       ELSE {}

\* The listing without the entries named in `names`.
Without(listing, names) ==
  LET Stays(e) == e.name \notin names IN SelectSeq(listing, Stays)

\* The listing with entry e put at place pos.
InsertAt(listing, pos, e) ==
  SubSeq(listing, 1, pos - 1) \o <<e>> \o SubSeq(listing, pos, Len(listing))

Artifact == [name |-> ArtifactName, isFile |-> TRUE, mtime |-> Now]

fullFilePath == [dir |-> getBackUpPath(config), name |-> fileName]

-----------------------------------------------------------------------------
(* The run *)

Init ==
  /\ config \in Configs
  /\ folderExists \in BOOLEAN
  /\ dir \in InitialDirs
  /\ (config.keepLocalBackups /\ ~folderExists) => dir = <<>>
  /\ deleted = {}
  /\ effects = {}
  /\ connection = NoValue
  /\ fileName = NoValue
  /\ command = NoValue
  /\ dump = "none"
  /\ fileStream = "none"
  /\ bucket = "none"
  /\ bucketParams = NoValue
  /\ put = "none"
  /\ uploadParams = NoValue
  /\ uploadPromise = "none"
  /\ outcome = "none"
  /\ error = "none"

\* prepareFolderStructure's effects.
prepareFolderStructure(c, exists) ==
  IF c.keepLocalBackups
  THEN {"existsSync"} \cup (IF exists THEN {} ELSE {"mkdirSync"})
  ELSE {}

\* backupAndUpload on a configuration isValidConfig rejects.
RejectInvalid ==
  /\ outcome' = "rejected"
  /\ error' = "Invalid Configuration"
  /\ UNCHANGED <<folderExists, effects, connection, fileName, command, dump>>

\* backupAndUpload on a configuration isValidConfig accepts, up to the exec
\* call of createBackup.
StartRun ==
  IF ParseThrows(config)
  THEN /\ outcome' = "thrown"
       /\ error' = "ParseError"
       /\ UNCHANGED <<folderExists, effects, connection, fileName, command,
                      dump>>
  ELSE LET mongoConnectionInstance == getMongodbConnectionInstance(config)
           name == getFileName(mongoConnectionInstance.database)
       IN /\ connection' = mongoConnectionInstance
          /\ fileName' = name
          /\ effects' = effects \cup {"AWS.config.update", "exec"}
                          \cup prepareFolderStructure(config, folderExists)
          /\ folderExists' = (folderExists \/ config.keepLocalBackups)
          /\ command' = createBackupCommand(
                          mongoConnectionInstance,
                          [dir |-> getBackUpPath(config), name |-> name])
          /\ dump' = "running"
          /\ outcome' = "pending"
          /\ UNCHANGED error

\* backupAndUpload creating the S3 instance before it validates.
backupAndUploadEager ==
  /\ outcome = "none"
  /\ IF isValidConfig(config)
     THEN StartRun
     ELSE /\ outcome' = "rejected"
          /\ error' = "Invalid Configuration"
          /\ effects' = effects \cup {"AWS.config.update"}
          /\ UNCHANGED <<folderExists, connection, fileName, command, dump>>
  /\ UNCHANGED <<config, dir, deleted, fileStream, bucket, bucketParams, put,
                 uploadParams, uploadPromise>>

backupAndUpload ==
  /\ outcome = "none"
  /\ IF isValidConfig(config) THEN StartRun ELSE RejectInvalid
  /\ UNCHANGED <<config, dir, deleted, fileStream, bucket, bucketParams, put,
                 uploadParams, uploadPromise>>

\* exec's callback in createBackup.  mongodump writes the archive; a failed
\* dump may leave a partial one.
execCallback ==
  /\ dump = "running"
  /\ \E err \in BOOLEAN, written \in BOOLEAN, pos \in 1..(Len(dir) + 1) :
       /\ ~err => written
       /\ written \/ pos = 1
       /\ dir' = IF written THEN InsertAt(dir, pos, Artifact) ELSE dir
       /\ dump' = IF err THEN "failed" ELSE "ok"
       /\ outcome' = IF err THEN "rejected" ELSE outcome
       /\ error' = IF err THEN "DumpError" ELSE error
  /\ UNCHANGED <<config, folderExists, deleted, effects, connection, fileName,
                 command, fileStream, bucket, bucketParams, put, uploadParams,
                 uploadPromise>>

\* uploadFile, called by the first then-callback, up to the createBucket call.
uploadFile ==
  /\ dump = "ok"
  /\ uploadPromise = "none"
  /\ fileStream' = "open"
  /\ bucketParams' = [Bucket |-> config.s3.bucketName,
                      ACL |-> IF Truthy(config.s3.accessPerm)
                              THEN config.s3.accessPerm ELSE "private",
                      LocationConstraint |-> config.s3.region]
  /\ bucket' = "pending"
  /\ uploadPromise' = "pending"
  /\ effects' = effects \cup {"createReadStream", "createBucket"}
  /\ UNCHANGED <<config, folderExists, dir, deleted, connection, fileName,
                 command, dump, put, uploadParams, outcome, error>>

\* uploadFile without the stream's error handler.
fileStreamErrorIgnored ==
  /\ fileStream = "open"
  /\ fileStream' = "errored"
  /\ UNCHANGED <<config, folderExists, dir, deleted, effects, connection,
                 fileName, command, dump, bucket, bucketParams, put,
                 uploadParams, uploadPromise, outcome, error>>

\* fileStream.on('error', reject)
fileStreamError ==
  /\ fileStream = "open"
  /\ fileStream' = "errored"
  /\ uploadPromise' = Settle(uploadPromise, "rejected")
  /\ outcome' = IF uploadPromise = "pending" THEN "rejected" ELSE outcome
  /\ error' = IF uploadPromise = "pending" THEN "StreamError" ELSE error
  /\ UNCHANGED <<config, folderExists, dir, deleted, effects, connection,
                 fileName, command, dump, bucket, bucketParams, put,
                 uploadParams>>

\* createBucket's callback rejecting on every result but a created bucket.
createBucketCallbackStrict ==
  /\ bucket = "pending"
  /\ \E result \in {"created", "exists", "error"} :
       /\ bucket' = result
       /\ put' = IF result = "created" THEN "pending" ELSE put
       /\ uploadParams' = IF result = "created"
                          THEN [Bucket |-> config.s3.bucketName,
                                Key |-> fileName,
                                Body |-> fullFilePath]
                          ELSE uploadParams
       /\ uploadPromise' = IF result = "created" THEN uploadPromise
                           ELSE Settle(uploadPromise, "rejected")
       /\ outcome' = IF result # "created" /\ uploadPromise = "pending"
                     THEN "rejected" ELSE outcome
       /\ error' = IF result # "created" /\ uploadPromise = "pending"
                   THEN "BucketError" ELSE error
       /\ effects' = IF result = "created" THEN effects \cup {"upload"}
                     ELSE effects
  /\ UNCHANGED <<config, folderExists, dir, deleted, connection, fileName,
                 command, dump, fileStream, bucketParams>>

\* createBucket's callback: whatever the result, it calls s3Instance.upload.
createBucketCallback ==
  /\ bucket = "pending"
  /\ \E result \in {"created", "exists", "error"} : bucket' = result
  /\ put' = "pending"
  /\ uploadParams' = [Bucket |-> config.s3.bucketName,
                      Key |-> fileName,
                      Body |-> fullFilePath]
  /\ effects' = effects \cup {"upload"}
  /\ UNCHANGED <<config, folderExists, dir, deleted, connection, fileName,
                 command, dump, fileStream, bucketParams, uploadPromise,
                 outcome, error>>

\* s3Instance.upload's callback.  A body read to its end closes the stream.
uploadCallback ==
  /\ put = "pending"
  /\ \E err \in BOOLEAN :
       /\ put' = IF err THEN "err" ELSE "ok"
       /\ uploadPromise' =
            Settle(uploadPromise, IF err THEN "rejected" ELSE "resolved")
       /\ outcome' = IF err /\ uploadPromise = "pending" THEN "rejected"
                     ELSE outcome
       /\ error' = IF err /\ uploadPromise = "pending" THEN "UploadError"
                   ELSE error
       /\ fileStream' = IF ~err /\ fileStream = "open" THEN "ended"
                        ELSE fileStream
  /\ UNCHANGED <<config, folderExists, dir, deleted, effects, connection,
                 fileName, command, dump, bucket, bucketParams, uploadParams>>

\* cleanFs chained to a then-callback that does not return uploadFile's
\* promise: it runs as soon as the upload has started.
cleanFsUnchained ==
  /\ uploadPromise \in {"pending", "resolved"}
  /\ outcome = "pending"
  /\ dir' = Without(dir, cleanFsUnlinks(config, dir))
  /\ deleted' = deleted \cup cleanFsUnlinks(config, dir)
  /\ effects' = effects \cup {"cleanFs"}
  /\ outcome' = "resolved"
  /\ UNCHANGED <<config, folderExists, connection, fileName, command, dump,
                 fileStream, bucket, bucketParams, put, uploadParams,
                 uploadPromise, error>>

\* cleanFs, called by the second then-callback; its return resolves the
\* promise backupAndUpload returned.
cleanFs ==
  /\ uploadPromise = "resolved"
  /\ outcome = "pending"
  /\ LET unlinks == cleanFsUnlinks(config, dir)
     IN /\ dir' = Without(dir, unlinks)
        /\ deleted' = deleted \cup unlinks
        /\ effects' = effects \cup {"cleanFs"}
             \cup (IF /\ config.keepLocalBackups
                      /\ TruthyNum(config.noOfLocalBackups)
                   THEN {"readdirSync", "lstatSync"} ELSE {})
             \cup (IF unlinks # {} THEN {"unlinkSync"} ELSE {})
  /\ outcome' = "resolved"
  /\ UNCHANGED <<config, folderExists, connection, fileName, command, dump,
                 fileStream, bucket, bucketParams, put, uploadParams,
                 uploadPromise, error>>

Next ==
  \/ backupAndUpload
  \/ execCallback
  \/ uploadFile
  \/ fileStreamError
  \/ createBucketCallback
  \/ uploadCallback
  \/ cleanFs

Spec == Init /\ [][Next]_vars

-----------------------------------------------------------------------------
(* The claims *)

Called == outcome # "none"

HasArtifact == \E i \in 1..Len(dir) : dir[i].name = ArtifactName

FileCount == Len(SelectSeq(dir, IsFile))

Mtime(name) == IF name = ArtifactName THEN Now ELSE name

AccessPermOrPrivate ==
  IF Truthy(config.s3.accessPerm) THEN config.s3.accessPerm ELSE "private"

\* C1: on a configuration isValidConfig rejects, backupAndUpload rejects with
\* 'Invalid Configuration' and has no side effect: no directory created, no
\* file read or deleted, no subprocess, no storage-client call.
C1_InvalidConfigNoSideEffect ==
  (Called /\ ~isValidConfig(config)) =>
    /\ outcome = "rejected"
    /\ error = "Invalid Configuration"
    /\ effects = {}
    /\ deleted = {}
    /\ command = NoValue
    /\ dump = "none"
    /\ fileStream = "none"
    /\ bucket = "none"
    /\ put = "none"

\* C1 witness: the spec's example, an empty bucket name, with the backups
\* folder wanted and absent.
C1_Witness ==
  /\ Called
  /\ config.s3.present
  /\ config.s3.bucketName = ""
  /\ config.mongodb.kind = "string"
  /\ config.keepLocalBackups
  /\ ~folderExists

\* C2: uploadFile starts only after a successful dump, s3Instance.upload is
\* called only after createBucket has called back, cleanFs runs only after a
\* successful upload; a run whose dump or upload failed never runs cleanFs and
\* deletes no file, so an artifact that was written stays.
C2_StagesSequential ==
  /\ (uploadPromise # "none" \/ fileStream # "none" \/ bucket # "none")
       => dump = "ok"
  /\ put # "none" => bucket \in {"created", "exists", "error"}
  /\ ("cleanFs" \in effects \/ deleted # {} \/ outcome = "resolved")
       => (uploadPromise = "resolved" /\ put = "ok")
  /\ (dump = "failed" \/ uploadPromise = "rejected")
       => /\ "cleanFs" \notin effects
          /\ deleted = {}
          /\ outcome = "rejected"
          /\ dump = "ok" => HasArtifact

\* C2 witness: an upload that failed after the dump wrote the artifact.
C2_Witness ==
  /\ uploadPromise = "rejected"
  /\ put = "err"
  /\ HasArtifact
  /\ Len(dir) > 1

\* C3: every outcome reaches the caller through the returned promise: it
\* resolves only after all stages succeeded, and on an invalid configuration,
\* a malformed connection URI, a dump failure or an upload failure it rejects
\* with that first error.
C3_OutcomeThroughPromise ==
  /\ outcome \in {"none", "pending", "resolved", "rejected"}
  /\ outcome = "resolved" =>
       (dump = "ok" /\ put = "ok" /\ "cleanFs" \in effects /\ error = "none")
  /\ (Called /\ isValidConfig(config) /\ ParseThrows(config)) =>
       (outcome = "rejected" /\ error = "ParseError")
  /\ dump = "failed" => (outcome = "rejected" /\ error = "DumpError")

\* C4: with keepLocalBackups false, after a successful run the artifact is
\* not at its planned path.
C4_ArtifactGone ==
  (outcome = "resolved" /\ ~config.keepLocalBackups) => ~HasArtifact

\* C4 witness: a successful ephemeral run in a directory that holds other
\* entries.
C4_Witness ==
  /\ outcome = "resolved"
  /\ ~config.keepLocalBackups
  /\ ArtifactName \in deleted
  /\ Len(dir) = MaxOld

C6_KeepsMostRecent ==
  (/\ "cleanFs" \in effects
   /\ config.keepLocalBackups
   /\ config.noOfLocalBackups >= 1)
    => /\ \A i \in 1..Len(dir) : \A d \in deleted :
            dir[i].isFile => dir[i].mtime >= Mtime(d)
       /\ ArtifactName \notin deleted

C8_DatabaseNonEmpty ==
  connection # NoValue =>
    /\ Truthy(connection.database)
    /\ command.d = connection.database
    /\ fileName.database = connection.database

\* C9 as stated: the put-object request carries the bucket, the key, the
\* file as body and the access-control setting, accessPerm or "private".
C9_PutObjectHasAcl ==
  put # "none" =>
    /\ uploadParams.Bucket = config.s3.bucketName
    /\ uploadParams.Key = fileName
    /\ uploadParams.Body = fullFilePath
    /\ "ACL" \in DOMAIN uploadParams
    /\ uploadParams.ACL = AccessPermOrPrivate

\* C9 amended: the put-object request carries the bucket, the key and the
\* file as body and nothing else; the access-control setting, accessPerm or
\* "private", is sent with the create-bucket request; and after any
\* create-bucket result the put-object request is made, so an upload fails
\* only on a stream error or a put-object error.
C9_AclOnCreateBucket ==
  /\ bucket # "none" =>
       /\ bucketParams.Bucket = config.s3.bucketName
       /\ bucketParams.ACL = AccessPermOrPrivate
  /\ put # "none" =>
       /\ DOMAIN uploadParams = {"Bucket", "Key", "Body"}
       /\ uploadParams.Bucket = config.s3.bucketName
       /\ uploadParams.Key = fileName
       /\ uploadParams.Body = fullFilePath
  /\ bucket \in {"created", "exists", "error"} =>
       /\ put # "none"
       /\ uploadPromise = "rejected" => (fileStream = "errored" \/ put = "err")
       /\ (put = "ok" /\ fileStream # "errored") => uploadPromise = "resolved"

\* C9 witness: the bucket was already there, the access setting is
\* configured, and the upload succeeded.
C9_Witness ==
  /\ bucket = "exists"
  /\ config.s3.accessPerm = "public-read"
  /\ uploadPromise = "resolved"

StreamErrorStep == fileStream = "open" /\ fileStream' = "errored"

\* C10 as stated: when the file stream raises a read error, no storage call
\* has completed yet, the upload is reported failed, and that failure stays
\* the run's outcome.
C10_FailsBeforeAnyStorageCall ==
  [][/\ StreamErrorStep =>
          /\ bucket = "pending"
          /\ put = "none"
          /\ outcome' = "rejected"
          /\ error' = "StreamError"
     /\ error = "StreamError" => (outcome' = "rejected" /\ error' = error)]_vars

\* C10 amended: when the file stream raises a read error before the
\* put-object call has called back (createBucket may have completed), the
\* upload is reported failed with that error at once, and that failure stays
\* the run's outcome whatever a storage call reports later.
C10_FailsUnlessPutDone ==
  [][/\ (StreamErrorStep /\ put \in {"none", "pending"}) =>
          /\ uploadPromise' = "rejected"
          /\ outcome' = "rejected"
          /\ error' = "StreamError"
     /\ error = "StreamError" => (outcome' = "rejected" /\ error' = error)]_vars

\* C10 witness: the stream failed, and afterwards both storage calls reported
\* success.
C10_Witness ==
  /\ error = "StreamError"
  /\ outcome = "rejected"
  /\ bucket = "created"
  /\ put = "ok"

====
